---------------------------- MODULE Spec2Model ----------------------------
(***************************************************************************)
(* PaperMemoFlow, src/pipeline.py: the summarisation pipeline.             *)
(*                                                                         *)
(*   _chunk_text    the overlapping word chunker                           *)
(*   _query_claude  the model client with its rate-limit retry loop        *)
(*   _extract_json  the tolerant response parser                           *)
(*   run_pipeline   the orchestrator                                       *)
(*                                                                         *)
(* One behaviour is one top-level call: entry names the function that is  *)
(* called, and its arguments are drawn in Init.  A document text is        *)
(* modelled by the result of text.split(): its sequence of words, word j   *)
(* being the integer j.  Every other string (a model reply, a summary, a   *)
(* raw response) is a sequence of one-character strings.                   *)
(***************************************************************************)
EXTENDS Integers, Sequences, FiniteSets, TLC

\* ------------------------------------------------------------------------
\* Bounds of the model
\* ------------------------------------------------------------------------
MaxWords == 6
MaxChunkSize == 3
MaxChunks == 8
MaxRetries == 4
MaxPieces == 3
MaxChecks == 3
MaxFileSize == 2

\* ------------------------------------------------------------------------
\* Program constants
\* ------------------------------------------------------------------------
DefaultChunkSize == 3000
DefaultChunkOverlap == 200
DefaultRetries == 3
DefaultChecks == 3
BackoffBase == 60
SnippetLen == 400

MAIN_MODEL == "claude-opus-4-5"
CHUNK_MODEL == "claude-haiku-4-5-20251001"

VARIABLES
    entry,            \* the function called at top level
    pc,               \* position of the top-level call
    CHUNK_SIZE,       \* config.CHUNK_SIZE
    CHUNK_OVERLAP,    \* config.CHUNK_OVERLAP
    words,            \* text.split() of the document text
    filename,         \* run_pipeline's filename argument
    cpc,              \* _chunk_text: position
    i,                \* _chunk_text: the cursor (0-based, as in the code)
    chunks,           \* _chunk_text: the chunks emitted so far
    qpc,              \* _query_claude: position
    prompt,           \* _query_claude: prompt argument
    model,            \* _query_claude: model argument
    retries,          \* _query_claude: retries argument
    attempt,          \* _query_claude: loop variable
    qresult,          \* _query_claude: the text returned
    qerror,           \* _query_claude: e, the exception caught
    events,           \* what the current query did: requests, warnings, sleeps
    k,                \* run_pipeline: number of chunks summarised so far
    chunk_summaries,  \* run_pipeline: chunk_summaries
    response,         \* run_pipeline: response / _extract_json: text
    data,             \* the value returned by _extract_json / run_pipeline
    error,            \* the exception the top-level call ended with
    queries,          \* every _query_claude call so far: model and prompt
    replies,          \* what each finished _query_claude call returned
    nRequests,        \* backend requests issued so far
    checks,           \* wait_for_complete: checks argument
    wpc,              \* wait_for_complete: position
    prev_size,        \* wait_for_complete: prev_size
    stable,           \* wait_for_complete: stable
    reads,            \* wait_for_complete: iterations of the loop started
    sizeLog,          \* the sizes path.stat() has answered, in order
    statFailed,       \* whether path.stat() has raised OSError
    wresult,          \* what wait_for_complete returned
    ppc,              \* process_pdf: position
    stages,           \* process_pdf: the stages started, in order
    pdfLog,           \* process_pdf: what it logged
    tex_content,      \* process_pdf: tex_content
    texFile,          \* the .tex file of the document
    pdfError          \* the exception process_pdf ended with

vars == <<entry, pc, CHUNK_SIZE, CHUNK_OVERLAP, words, filename, cpc, i,
          chunks, qpc, prompt, model, retries, attempt, qresult, qerror,
          events, k, chunk_summaries, response, data, error, queries,
          replies, nRequests, checks, wpc, prev_size, stable, reads, sizeLog,
          statFailed, wresult, ppc, stages, pdfLog, tex_content, texFile,
          pdfError>>

configVars == <<entry, CHUNK_SIZE, CHUNK_OVERLAP, words, filename>>
chunkVars == <<cpc, i, chunks>>
queryVars == <<qpc, prompt, model, retries, attempt, qresult, qerror, events>>
logVars == <<queries, replies, nRequests>>
runVars == <<k, chunk_summaries, response, data, error>>
waitVars == <<checks, wpc, prev_size, stable, reads, sizeLog, statFailed,
              wresult>>
pdfVars == <<ppc, stages, pdfLog, tex_content, texFile, pdfError>>

\* ------------------------------------------------------------------------
\* Sequences and Python's list and str primitives
\* ------------------------------------------------------------------------
Min(S) == CHOOSE x \in S : \A y \in S : x <= y
Max(S) == CHOOSE x \in S : \A y \in S : x >= y

Range(s) == {s[j] : j \in 1..Len(s)}

\* The clamp Python applies to one bound of a slice of a sequence of n items.
PyBound(a, n) ==
    IF a < 0 THEN (IF a + n < 0 THEN 0 ELSE a + n)
    ELSE (IF a > n THEN n ELSE a)

\* s[a:b] with Python's 0-based, clamped, negative-from-the-end bounds.
PySlice(s, a, b) ==
    LET lo == PyBound(a, Len(s))
        hi == PyBound(b, Len(s))
    IN  IF lo >= hi THEN <<>> ELSE SubSeq(s, lo + 1, hi)

RECURSIVE Concat(_)
\* "".join(parts)
Concat(parts) ==
    IF parts = <<>> THEN <<>> ELSE Head(parts) \o Concat(Tail(parts))

RECURSIVE Join(_, _)
\* sep.join(parts)
Join(sep, parts) ==
    IF parts = <<>> THEN <<>>
    ELSE IF Len(parts) = 1 THEN Head(parts)
    ELSE Head(parts) \o sep \o Join(sep, Tail(parts))

Spaces == {" ", "\n"}

\* str.strip()
Strip(s) ==
    LET keep == {j \in 1..Len(s) : s[j] \notin Spaces}
    IN  IF keep = {} THEN <<>> ELSE SubSeq(s, Min(keep), Max(keep))

NoData == [t |-> "none", chars |-> <<>>, keys |-> <<>>, items |-> <<>>]
NoError == [type |-> "none", msg |-> <<>>]
NoTex == [written |-> FALSE, title |-> <<>>, summary |-> <<>>,
          contributions |-> <<>>, limitations |-> <<>>, question |-> <<>>]
NoPrompt ==
    [kind |-> "none", text |-> <<>>, chunk_num |-> 0, total |-> 0,
     summaries |-> <<>>, filename |-> ""]

\* ------------------------------------------------------------------------
\* _chunk_text
\* ------------------------------------------------------------------------
\* words[i : i + CHUNK_SIZE]
\* A slice that stops one word early.
ChunkWords_Short(ws, at, size) == PySlice(ws, at, at + size - 1)

ChunkWords(ws, at, size) == PySlice(ws, at, at + size)

\* A break test that misses the chunk that ends exactly at the last word.
LastChunk_Strict(ws, at, size) == at + size > Len(ws)

\* if i + CHUNK_SIZE >= len(words): break
LastChunk(ws, at, size) == at + size >= Len(ws)

\* A cursor that steps over the overlap instead of back by it.
Advance_SkipsOverlap(at, size, overlap) == at + (size + overlap)

\* A cursor that steps by the whole chunk size.
Advance_NoOverlap(at, size, overlap) == at + size

\* A cursor that stays where it is.
Advance_Stalls(at, size, overlap) == at

\* i += CHUNK_SIZE - CHUNK_OVERLAP
Advance(at, size, overlap) == at + (size - overlap)

\* _chunk_text is entered: words = text.split(); chunks = []; i = 0
ChunkTextEnter ==
    /\ cpc' = "loop"
    /\ i' = 0
    /\ chunks' = <<>>

\* One iteration of the while loop.
ChunkStep ==
    /\ cpc = "loop"
    /\ i < Len(words)
    /\ Len(chunks) < MaxChunks
    /\ chunks' = Append(chunks, ChunkWords(words, i, CHUNK_SIZE))
    /\ IF LastChunk(words, i, CHUNK_SIZE)
       THEN /\ cpc' = "returned"
            /\ i' = i
       ELSE /\ cpc' = "loop"
            /\ i' = Advance(i, CHUNK_SIZE, CHUNK_OVERLAP)
    /\ UNCHANGED <<pc, configVars, pdfVars, waitVars, queryVars, runVars,
                   logVars>>

\* The while condition is false: return chunks.
ChunkExit ==
    /\ cpc = "loop"
    /\ ~(i < Len(words))
    /\ cpc' = "returned"
    /\ UNCHANGED <<pc, i, chunks, configVars, pdfVars, waitVars, queryVars,
                   runVars, logVars>>

\* The top-level call is _chunk_text(text).
CallChunkText ==
    /\ entry = "_chunk_text"
    /\ pc = "call"
    /\ pc' = "waiting"
    /\ ChunkTextEnter
    /\ UNCHANGED <<configVars, pdfVars, waitVars, queryVars, runVars, logVars>>

ReturnChunkText ==
    /\ entry = "_chunk_text"
    /\ pc = "waiting"
    /\ cpc = "returned"
    /\ pc' = "returned"
    /\ UNCHANGED <<configVars, pdfVars, waitVars, chunkVars, queryVars,
                   runVars, logVars>>


\* ------------------------------------------------------------------------
\* _extract_json: the regular expressions
\* ------------------------------------------------------------------------
\* The backtick character, and the code-fence marker: three of them.
Tick == "tick"
Fence == <<Tick, Tick, Tick>>
JsonTag == <<"j", "s", "o", "n">>

\* s[j:].startswith(lit), j 1-based
StartsWith(s, j, lit) ==
    /\ j >= 1
    /\ j + Len(lit) - 1 <= Len(s)
    /\ SubSeq(s, j, j + Len(lit) - 1) = lit

\* The first index >= j of s that holds no whitespace, Len(s) + 1 if none.
NextNonSpace(s, j) ==
    Min({q \in j..Len(s) : s[q] \notin Spaces} \cup {Len(s) + 1})

\* Where a match of FENCE(?:json)?\s* that starts at j ends (exclusive).
FenceMatchEnd(s, j) ==
    LET a == j + Len(Fence)
        b == IF StartsWith(s, a, JsonTag) THEN a + Len(JsonTag) ELSE a
    IN  NextNonSpace(s, b)

RECURSIVE SubFences(_, _)
\* re.sub(r"FENCE(?:json)?\s*", "", s), applied from index "from" on.
SubFences(s, from) ==
    LET starts == {j \in from..Len(s) : StartsWith(s, j, Fence)}
    IN  IF starts = {} THEN SubSeq(s, from, Len(s))
        ELSE SubSeq(s, from, Min(starts) - 1)
                 \o SubFences(s, FenceMatchEnd(s, Min(starts)))

\* cleaned = re.sub(r"FENCE(?:json)?\s*", "", text).strip()
Cleaned(text) == Strip(SubFences(text, 1))

\* re.search(r"\{[\s\S]*\}", s): the match, from the first "{" to the last
\* "}" after it.
BraceMatch(s) ==
    LET opens == {j \in 1..Len(s) : s[j] = "{"}
        closes == {j \in 1..Len(s) : s[j] = "}"}
    IN  IF opens = {} \/ closes = {} \/ Max(closes) < Min(opens)
        THEN [found |-> FALSE, group |-> <<>>]
        ELSE [found |-> TRUE, group |-> SubSeq(s, Min(opens), Max(closes))]

\* ------------------------------------------------------------------------
\* json.loads, on the characters of the model's alphabet: objects, arrays,
\* strings without escapes, and numbers written with the digit 1.
\* ------------------------------------------------------------------------
JStr(cs) == [t |-> "str", chars |-> cs, keys |-> <<>>, items |-> <<>>]
JInt(cs) == [t |-> "int", chars |-> cs, keys |-> <<>>, items |-> <<>>]
JList(vs) == [t |-> "list", chars |-> <<>>, keys |-> <<>>, items |-> vs]
JDict(ks, vs) == [t |-> "dict", chars |-> <<>>, keys |-> ks, items |-> vs]

ScanFail == [ok |-> FALSE, val |-> NoData, end |-> 0]
Scanned(v, e) == [ok |-> TRUE, val |-> v, end |-> e]

\* dict[key] = value: a repeated key keeps its place and takes the new value.
DictPut(d, key, v) ==
    LET at == {j \in 1..Len(d.keys) : d.keys[j] = key}
    IN  IF at = {}
        THEN JDict(Append(d.keys, key), Append(d.items, v))
        ELSE JDict(d.keys, [d.items EXCEPT ![Min(at)] = v])

\* A string that opens at s[j] = '"'.  A raw control character inside it is
\* an error (strict decoding).
ScanString(s, j) ==
    LET closes == {q \in (j + 1)..Len(s) : s[q] = "\""}
    IN  IF closes = {} THEN ScanFail
        ELSE LET body == SubSeq(s, j + 1, Min(closes) - 1)
             IN  IF "\n" \in Range(body) THEN ScanFail
                 ELSE Scanned(JStr(body), Min(closes) + 1)

\* A number that starts at s[j] = "1": the run of digits.
ScanNumber(s, j) ==
    LET stop == Min({q \in j..Len(s) : s[q] # "1"} \cup {Len(s) + 1})
    IN  Scanned(JInt(SubSeq(s, j, stop - 1)), stop)

RECURSIVE ScanOnce(_, _)
RECURSIVE ScanMembers(_, _, _)
RECURSIVE ScanElements(_, _, _)

\* JSONObject, after the "{" at s[j - 1].
ScanObject(s, j) ==
    LET p == NextNonSpace(s, j)
    IN  IF p > Len(s) THEN ScanFail
        ELSE IF s[p] = "}" THEN Scanned(JDict(<<>>, <<>>), p + 1)
        ELSE IF s[p] = "\"" THEN ScanMembers(s, p, JDict(<<>>, <<>>))
        ELSE ScanFail

\* One "key": value pair that starts at s[p] = '"', and the pairs after it.
ScanMembers(s, p, d) ==
    LET key == ScanString(s, p)
        q == NextNonSpace(s, key.end)
        v == ScanOnce(s, NextNonSpace(s, q + 1))
        r == NextNonSpace(s, v.end)
        t == NextNonSpace(s, r + 1)
    IN  IF ~key.ok \/ q > Len(s) THEN ScanFail
        ELSE IF s[q] # ":" THEN ScanFail
        ELSE IF ~v.ok \/ r > Len(s) THEN ScanFail
        ELSE IF s[r] = "}" THEN Scanned(DictPut(d, key.val.chars, v.val), r + 1)
        ELSE IF s[r] # "," \/ t > Len(s) THEN ScanFail
        ELSE IF s[t] # "\"" THEN ScanFail
        ELSE ScanMembers(s, t, DictPut(d, key.val.chars, v.val))

\* JSONArray, after the "[" at s[j - 1].
ScanArray(s, j) ==
    LET p == NextNonSpace(s, j)
    IN  IF p > Len(s) THEN ScanFail
        ELSE IF s[p] = "]" THEN Scanned(JList(<<>>), p + 1)
        ELSE ScanElements(s, p, <<>>)

\* One array element that starts at s[p], and the elements after it.
ScanElements(s, p, vs) ==
    LET v == ScanOnce(s, p)
        r == NextNonSpace(s, v.end)
    IN  IF ~v.ok \/ r > Len(s) THEN ScanFail
        ELSE IF s[r] = "]" THEN Scanned(JList(Append(vs, v.val)), r + 1)
        ELSE IF s[r] # "," THEN ScanFail
        ELSE ScanElements(s, NextNonSpace(s, r + 1), Append(vs, v.val))

\* scan_once(s, idx): the value that starts at s[j].
ScanOnce(s, j) ==
    IF j > Len(s) THEN ScanFail
    ELSE IF s[j] = "\"" THEN ScanString(s, j)
    ELSE IF s[j] = "{" THEN ScanObject(s, j + 1)
    ELSE IF s[j] = "[" THEN ScanArray(s, j + 1)
    ELSE IF s[j] = "1" THEN ScanNumber(s, j)
    ELSE ScanFail

\* json.loads(s): one value, whitespace around it, nothing else.
JsonLoads(s) ==
    LET v == ScanOnce(s, NextNonSpace(s, 1))
    IN  IF v.ok /\ NextNonSpace(s, v.end) = Len(s) + 1
        THEN [ok |-> TRUE, val |-> v.val]
        ELSE [ok |-> FALSE, val |-> NoData]

\* ------------------------------------------------------------------------
\* _extract_json
\* ------------------------------------------------------------------------
\* text[:400]
Snippet(text) == PySlice(text, 0, SnippetLen)

\* raise ValueError(f"Could not parse JSON from Claude response:\n{text[:400]}")
ParseError(text) == [type |-> "ValueError", msg |-> Snippet(text)]

Returns(v) == [ok |-> TRUE, val |-> v, err |-> NoError]
Raises(e) == [ok |-> FALSE, val |-> NoData, err |-> e]

\* _extract_json(text): the value returned, or the exception raised.
ExtractJson(text) ==
    LET cleaned == Cleaned(text)
        direct == JsonLoads(cleaned)
        match == BraceMatch(cleaned)
        inner == JsonLoads(match.group)
    IN  IF direct.ok THEN Returns(direct.val)
        ELSE IF match.found /\ inner.ok THEN Returns(inner.val)
        ELSE Raises(ParseError(text))

\* The top-level call is _extract_json(text).
CallExtractJson ==
    /\ entry = "_extract_json"
    /\ pc = "call"
    /\ LET out == ExtractJson(response)
       IN  /\ pc' = IF out.ok THEN "returned" ELSE "raised"
           /\ data' = out.val
           /\ error' = out.err
    /\ UNCHANGED <<configVars, pdfVars, waitVars, chunkVars, queryVars,
                   logVars, k, chunk_summaries, response>>

\* ------------------------------------------------------------------------
\* The model backend: claude_code_sdk.query
\* ------------------------------------------------------------------------
AssistantMessage(blocks) == [type |-> "assistant", content |-> blocks]
SystemMessage == [type |-> "system"]
ResultMessage == [type |-> "result"]
TextBlock(t) == [type |-> "text", text |-> t]
ToolUseBlock == [type |-> "tool_use"]

\* hasattr(obj, name)
HasAttr(obj, name) == name \in DOMAIN obj

\* What the backend may yield for one request to the chunk model: texts
\* that come to "a" and to "b c".
ChunkReplies ==
    { <<AssistantMessage(<<TextBlock(<<"a">>)>>)>>,
      <<SystemMessage,
        AssistantMessage(<<TextBlock(<<" ">>), ToolUseBlock, TextBlock(<<"b">>)>>),
        AssistantMessage(<<TextBlock(<<" ", "c", "\n">>)>>),
        ResultMessage>> }

\* A summary with every field of the schema the prompts ask for: title,
\* summary, contributions (one item), limitations (none), question.
SchemaText ==
    << "{", "\"", "t", "i", "t", "l", "e", "\"", ":", "\"", "x", "\"", ",",
       "\"", "s", "u", "m", "m", "a", "r", "y", "\"", ":", "\"", "x", "\"",
       ",", "\"", "c", "o", "n", "t", "r", "i", "b", "u", "t", "i", "o",
       "n", "s", "\"", ":", "[", "{", "\"", "l", "a", "b", "e", "l", "\"",
       ":", "\"", "x", "\"", ",", "\"", "t", "e", "x", "t", "\"", ":", "\"",
       "x", "\"", "}", "]", ",", "\"", "l", "i", "m", "i", "t", "a", "t",
       "i", "o", "n", "s", "\"", ":", "[", "]", ",", "\"", "q", "u", "e",
       "s", "t", "i", "o", "n", "\"", ":", "\"", "x", "\"", "}" >>

\* What the backend may yield for one request to the main model: an object,
\* an object in a code fence, prose without a brace, an array, and an
\* object with the fields of the schema.
MainReplies ==
    { <<SystemMessage,
        AssistantMessage(<<TextBlock(<<"\n", "{", "\"", "x", "\"">>),
                           TextBlock(<<":", "1", "}", " ">>)>>),
        ResultMessage>>,
      <<AssistantMessage(<<TextBlock(Fence \o JsonTag \o <<"\n", "{", "}">>)>>),
        AssistantMessage(<<TextBlock(<<"\n">> \o Fence)>>)>>,
      <<AssistantMessage(<<TextBlock(<<"x", " ", "x">>)>>)>>,
      <<AssistantMessage(<<TextBlock(<<"[", "1", "]">>)>>)>>,
      <<AssistantMessage(<<TextBlock(SchemaText)>>)>> }

BackendReplies(m) == IF m = CHUNK_MODEL THEN ChunkReplies ELSE MainReplies

\* The exceptions a request may fail with; msg is str(e).
BackendErrors ==
    { [type |-> "MessageParseError",
       msg |-> <<"r", "a", "t", "e", "_", "l", "i", "m", "i", "t", "_", "e">>],
      [type |-> "ProcessError",
       msg |-> <<"x", " ", "R", "a", "t", "e", "_", "L", "I", "M", "I", "T">>],
      [type |-> "ProcessError",
       msg |-> <<"r", "a", "t", "e", " ", "l", "i", "m", "i", "t">>],
      [type |-> "CLIConnectionError", msg |-> <<"x">>] }

\* ------------------------------------------------------------------------
\* _query_claude
\* ------------------------------------------------------------------------
RECURSIVE BlockTexts(_)
\* for block in message.content: if hasattr(block, "text"): block.text
BlockTexts(blocks) ==
    IF blocks = <<>> THEN <<>>
    ELSE (IF HasAttr(Head(blocks), "text") THEN <<Head(blocks).text>> ELSE <<>>)
             \o BlockTexts(Tail(blocks))

RECURSIVE MessageParts(_)
\* parts, after the async for over the messages of one request
MessageParts(messages) ==
    IF messages = <<>> THEN <<>>
    ELSE (IF HasAttr(Head(messages), "content")
          THEN BlockTexts(Head(messages).content) ELSE <<>>)
             \o MessageParts(Tail(messages))

\* return "".join(parts).strip()
ResponseText(messages) == Strip(Concat(MessageParts(messages)))

LowerChar(c) ==
    CASE c = "R" -> "r" [] c = "A" -> "a" [] c = "T" -> "t" [] c = "E" -> "e"
      [] c = "L" -> "l" [] c = "I" -> "i" [] c = "M" -> "m" [] OTHER -> c

\* str.lower()
Lower(s) == [j \in 1..Len(s) |-> LowerChar(s[j])]

\* needle in s
Contains(s, needle) == \E j \in 1..Len(s) : StartsWith(s, j, needle)

RateLimitMark == <<"r", "a", "t", "e", "_", "l", "i", "m", "i", "t">>

\* is_rate_limit = "rate_limit" in str(e).lower()
IsRateLimit(e) == Contains(Lower(e.msg), RateLimitMark)

\* A retry test that forgets to look at the kind of error.
ShouldRetry_AnyError(e, a, r) == a < r - 1

\* A retry test that also sleeps after the last attempt.
ShouldRetry_OffByOne(e, a, r) == IsRateLimit(e) /\ a < r

\* A retry on every rate-limit error, however many attempts were made.
ShouldRetry_Always(e, a, r) == IsRateLimit(e)

\* if is_rate_limit and attempt < retries - 1
ShouldRetry(e, a, r) == IsRateLimit(e) /\ a < r - 1

\* A back-off that counts the attempts from 0: no wait, then 60 s.
Wait_FromZero(a) == BackoffBase * a

\* wait = 60 * (attempt + 1)
Wait(a) == BackoffBase * (a + 1)

\* for attempt in range(retries): whether the loop body runs for attempt a
InRange(a, r) == a < r

Event(ev, secs) ==
    [ev |-> ev, attempt |-> attempt, secs |-> secs, prompt |-> prompt,
     model |-> model]

\* _query_claude(p, m, r) is entered.
QueryEnter(p, m, r) ==
    /\ qpc' = "loop"
    /\ prompt' = p
    /\ model' = m
    /\ retries' = r
    /\ attempt' = 0
    /\ qresult' = <<>>
    /\ qerror' = NoError
    /\ events' = <<>>
    /\ queries' = Append(queries, [model |-> m, prompt |-> p])
    /\ UNCHANGED <<replies, nRequests>>

\* The loop body starts: query(prompt=prompt, options=...) is issued.
QueryRequest ==
    /\ qpc = "loop"
    /\ InRange(attempt, retries)
    /\ qpc' = "awaiting"
    /\ events' = Append(events, Event("request", 0))
    /\ nRequests' = nRequests + 1
    /\ UNCHANGED <<pc, configVars, pdfVars, waitVars, chunkVars, runVars,
                   prompt, model, retries, attempt, qresult, qerror, queries,
                   replies>>

\* The request streams its messages to the end: return the joined text.
QueryReply ==
    /\ qpc = "awaiting"
    /\ \E messages \in BackendReplies(model) :
           /\ qresult' = ResponseText(messages)
           /\ replies' = Append(replies, ResponseText(messages))
    /\ qpc' = "returned"
    /\ UNCHANGED <<pc, configVars, pdfVars, waitVars, chunkVars, runVars,
                   prompt, model, retries, attempt, qerror, events, queries,
                   nRequests>>

\* The request raises: warn and sleep before the next attempt, or re-raise.
QueryError ==
    /\ qpc = "awaiting"
    /\ \E e \in BackendErrors :
           IF ShouldRetry(e, attempt, retries)
           THEN /\ events' = events \o <<Event("warning", Wait(attempt)),
                                         Event("sleep", Wait(attempt))>>
                /\ qpc' = "sleeping"
                /\ qerror' = e
           ELSE /\ qpc' = "raised"
                /\ qerror' = e
                /\ UNCHANGED events
    /\ UNCHANGED <<pc, configVars, pdfVars, waitVars, chunkVars, runVars,
                   prompt, model, retries, attempt, qresult, logVars>>

\* A retry that does not count the attempt it follows.
QueryWake_NoCount ==
    /\ qpc = "sleeping"
    /\ attempt' = attempt
    /\ qerror' = NoError
    /\ qpc' = "loop"
    /\ UNCHANGED <<pc, configVars, pdfVars, waitVars, chunkVars, runVars,
                   prompt, model, retries, qresult, events, logVars>>

\* asyncio.sleep(wait) is over: the except block ends, the next attempt.
QueryWake ==
    /\ qpc = "sleeping"
    /\ attempt' = attempt + 1
    /\ qerror' = NoError
    /\ qpc' = "loop"
    /\ UNCHANGED <<pc, configVars, pdfVars, waitVars, chunkVars, runVars,
                   prompt, model, retries, qresult, events, logVars>>

\* The loop ran out: return "".
QueryFallThrough ==
    /\ qpc = "loop"
    /\ ~InRange(attempt, retries)
    /\ qresult' = <<>>
    /\ replies' = Append(replies, <<>>)
    /\ qpc' = "returned"
    /\ UNCHANGED <<pc, configVars, pdfVars, waitVars, chunkVars, runVars,
                   prompt, model, retries, attempt, qerror, events, queries,
                   nRequests>>

\* The top-level call is _query_claude(prompt, model, retries).
CallQuery ==
    /\ entry = "_query_claude"
    /\ pc = "call"
    /\ pc' = "waiting"
    /\ QueryEnter(prompt, model, retries)
    /\ UNCHANGED <<configVars, pdfVars, waitVars, chunkVars, runVars>>

ReturnQuery ==
    /\ entry = "_query_claude"
    /\ pc = "waiting"
    /\ qpc \in {"returned", "raised"}
    /\ pc' = qpc
    /\ error' = qerror
    /\ UNCHANGED <<configVars, pdfVars, waitVars, chunkVars, queryVars,
                   logVars, k, chunk_summaries, response, data>>

\* ------------------------------------------------------------------------
\* Prompts: each f-string is kept as the values it embeds.
\* ------------------------------------------------------------------------
\* _build_summary_prompt(text, filename)
SummaryPrompt(ws, name) ==
    [kind |-> "summary", text |-> ws, chunk_num |-> 0, total |-> 0,
     summaries |-> <<>>, filename |-> name]

\* _build_chunk_prompt(chunk, chunk_num, total)
ChunkPrompt(chunk, num, total) ==
    [kind |-> "chunk", text |-> chunk, chunk_num |-> num, total |-> total,
     summaries |-> <<>>, filename |-> ""]

\* _build_consolidation_prompt(summaries, filename)
ConsolidationPrompt(summaries, name) ==
    [kind |-> "consolidation", text |-> <<>>, chunk_num |-> 0, total |-> 0,
     summaries |-> summaries, filename |-> name]

\* ------------------------------------------------------------------------
\* run_pipeline
\* ------------------------------------------------------------------------
\* A budget test that chunks a text of exactly CHUNK_SIZE words.
NeedsChunking_AtBudget(ws, size) == Len(ws) >= size

\* if word_count > CHUNK_SIZE
NeedsChunking(ws, size) == Len(ws) > size

\* Summaries collected at the front of the list.
Collect_Prepend(summaries, summary) == <<summary>> \o summaries

\* chunk_summaries.append(summary)
Collect(summaries, summary) == Append(summaries, summary)

\* consolidated = "\n\n".join(chunk_summaries)
Consolidated(summaries) == Join(<<"\n", "\n">>, summaries)

\* for i, c in enumerate(chunks): whether a chunk is left after n of them
MoreChunks(n, cs) == n < Len(cs)

\* The call starts: count the words, then chunk the text or query the main
\* model with the whole of it.
RunEnter ==
    /\ pc = "call"
    /\ IF NeedsChunking(words, CHUNK_SIZE)
       THEN /\ pc' = "chunking"
            /\ ChunkTextEnter
            /\ UNCHANGED <<queryVars, logVars>>
       ELSE /\ pc' = "await_main"
            /\ QueryEnter(SummaryPrompt(words, filename), MAIN_MODEL,
                          DefaultRetries)
            /\ UNCHANGED chunkVars
    /\ UNCHANGED <<configVars, waitVars, runVars>>

\* The top-level call is run_pipeline(text, filename).
RunStart ==
    /\ entry = "run_pipeline"
    /\ RunEnter
    /\ UNCHANGED pdfVars

\* _chunk_text returned: chunk_summaries = [], and the for loop starts.
RunChunked ==
    /\ pc = "chunking"
    /\ cpc = "returned"
    /\ pc' = "chunk_loop"
    /\ chunk_summaries' = <<>>
    /\ k' = 0
    /\ UNCHANGED <<configVars, pdfVars, waitVars, chunkVars, queryVars,
                   logVars, response, data, error>>

\* The loop body: query the chunk model about the next chunk.
RunChunkQuery ==
    /\ pc = "chunk_loop"
    /\ MoreChunks(k, chunks)
    /\ pc' = "await_chunk"
    /\ QueryEnter(ChunkPrompt(chunks[k + 1], k + 1, Len(chunks)), CHUNK_MODEL,
                  DefaultRetries)
    /\ UNCHANGED <<configVars, pdfVars, waitVars, chunkVars, runVars>>

\* A loop that goes on to the next chunk without awaiting the query it
\* started.
RunChunkDone_NoAwait ==
    /\ pc = "await_chunk"
    /\ pc' = "chunk_loop"
    /\ chunk_summaries' = Collect(chunk_summaries, qresult)
    /\ k' = k + 1
    /\ UNCHANGED <<configVars, pdfVars, waitVars, chunkVars, queryVars,
                   logVars, response, data, error>>

\* The chunk's query returned: keep its summary.
RunChunkDone ==
    /\ pc = "await_chunk"
    /\ qpc = "returned"
    /\ pc' = "chunk_loop"
    /\ chunk_summaries' = Collect(chunk_summaries, qresult)
    /\ k' = k + 1
    /\ UNCHANGED <<configVars, pdfVars, waitVars, chunkVars, queryVars,
                   logVars, response, data, error>>

\* The loop is over: query the main model about the joined summaries.
RunConsolidate ==
    /\ pc = "chunk_loop"
    /\ ~MoreChunks(k, chunks)
    /\ pc' = "await_main"
    /\ QueryEnter(ConsolidationPrompt(Consolidated(chunk_summaries), filename),
                  MAIN_MODEL, DefaultRetries)
    /\ UNCHANGED <<configVars, pdfVars, waitVars, chunkVars, runVars>>

\* A chunk loop that swallows a failed query and goes on with an empty
\* summary.
RunQueryRaised_Swallow ==
    /\ pc = "await_chunk"
    /\ qpc = "raised"
    /\ pc' = "chunk_loop"
    /\ chunk_summaries' = Append(chunk_summaries, <<>>)
    /\ k' = k + 1
    /\ UNCHANGED <<configVars, pdfVars, waitVars, chunkVars, queryVars,
                   logVars, response, data, error>>

\* A query raised: nothing catches it, run_pipeline ends with it.
RunQueryRaised ==
    /\ pc \in {"await_chunk", "await_main"}
    /\ qpc = "raised"
    /\ pc' = "raised"
    /\ error' = qerror
    /\ UNCHANGED <<configVars, pdfVars, waitVars, chunkVars, queryVars,
                   logVars, k, chunk_summaries, response, data>>

\* _extract_json of every text the main model's query can return, computed
\* once.
MainTexts == {ResponseText(m) : m \in BackendReplies(MAIN_MODEL)}
ParsedMainTexts == [t \in MainTexts |-> ExtractJson(t)]

\* _extract_json(response)
ParseResponse(t) ==
    IF t \in MainTexts THEN ParsedMainTexts[t] ELSE ExtractJson(t)

\* The main model's query returned: data = _extract_json(response).
RunParse ==
    /\ pc = "await_main"
    /\ qpc = "returned"
    /\ response' = qresult
    /\ LET out == ParseResponse(qresult)
       IN  /\ pc' = IF out.ok THEN "returned" ELSE "raised"
           /\ data' = out.val
           /\ error' = out.err
    /\ UNCHANGED <<configVars, pdfVars, waitVars, chunkVars, queryVars,
                   logVars, k, chunk_summaries>>

\* ------------------------------------------------------------------------
\* watcher.wait_for_complete
\* ------------------------------------------------------------------------
\* What path.stat().st_size may answer.
FileSizes == 0..MaxFileSize

\* A comparison that also counts an empty file as stable.
SizeStable_AllowsEmpty(size, prev) == size = prev

\* if size > 0 and size == prev_size
SizeStable(size, prev) == size > 0 /\ size = prev

\* if stable >= checks
StableEnough(count, needed) == count >= needed

\* for _ in range(checks + 2): whether an iteration is left after n of them
MoreReads(n, needed) == n < needed + 2

\* The top-level call is wait_for_complete(path, checks): prev_size = -1;
\* stable = 0.
CallWaitForComplete ==
    /\ entry = "wait_for_complete"
    /\ pc = "call"
    /\ pc' = "waiting"
    /\ wpc' = "loop"
    /\ prev_size' = -1
    /\ stable' = 0
    /\ reads' = 0
    /\ UNCHANGED <<configVars, pdfVars, chunkVars, queryVars, runVars,
                   logVars, checks, sizeLog, statFailed, wresult>>

\* One iteration of the loop up to its sleep: the size is read, or the read
\* raises OSError.
WaitRead ==
    /\ wpc = "loop"
    /\ MoreReads(reads, checks)
    /\ reads' = reads + 1
    /\ \/ /\ statFailed' = TRUE
          /\ wpc' = "returned"
          /\ wresult' = "False"
          /\ UNCHANGED <<prev_size, stable, sizeLog>>
       \/ \E size \in FileSizes :
             /\ sizeLog' = Append(sizeLog, size)
             /\ UNCHANGED statFailed
             /\ IF SizeStable(size, prev_size)
                THEN /\ stable' = stable + 1
                     /\ IF StableEnough(stable + 1, checks)
                        THEN /\ wpc' = "returned"
                             /\ wresult' = "True"
                             /\ UNCHANGED prev_size
                        ELSE /\ wpc' = "sleeping"
                             /\ prev_size' = size
                             /\ UNCHANGED wresult
                ELSE /\ stable' = 0
                     /\ wpc' = "sleeping"
                     /\ prev_size' = size
                     /\ UNCHANGED wresult
    /\ UNCHANGED <<pc, configVars, pdfVars, chunkVars, queryVars, runVars,
                   logVars, checks>>

\* time.sleep(interval) is over: the next iteration.
WaitWake ==
    /\ wpc = "sleeping"
    /\ wpc' = "loop"
    /\ UNCHANGED <<pc, configVars, pdfVars, chunkVars, queryVars, runVars,
                   logVars, checks, prev_size, stable, reads, sizeLog,
                   statFailed, wresult>>

\* The loop ran out: return False.
WaitGiveUp ==
    /\ wpc = "loop"
    /\ ~MoreReads(reads, checks)
    /\ wpc' = "returned"
    /\ wresult' = "False"
    /\ UNCHANGED <<pc, configVars, pdfVars, chunkVars, queryVars, runVars,
                   logVars, checks, prev_size, stable, reads, sizeLog,
                   statFailed>>

ReturnWaitForComplete ==
    /\ entry = "wait_for_complete"
    /\ pc = "waiting"
    /\ wpc = "returned"
    /\ pc' = "returned"
    /\ UNCHANGED <<configVars, pdfVars, chunkVars, queryVars, runVars, logVars,
                   waitVars>>

\* ------------------------------------------------------------------------
\* latex_writer.fill_template
\* ------------------------------------------------------------------------
KeyTitle == <<"t", "i", "t", "l", "e">>
KeySummary == <<"s", "u", "m", "m", "a", "r", "y">>
KeyContributions ==
    <<"c", "o", "n", "t", "r", "i", "b", "u", "t", "i", "o", "n", "s">>
KeyLimitations == <<"l", "i", "m", "i", "t", "a", "t", "i", "o", "n", "s">>
KeyQuestion == <<"q", "u", "e", "s", "t", "i", "o", "n">>
KeyLabel == <<"l", "a", "b", "e", "l">>
KeyText == <<"t", "e", "x", "t">>

KeyError(key) == [type |-> "KeyError", msg |-> key]
TypeError == [type |-> "TypeError", msg |-> <<>>]
AttributeError == [type |-> "AttributeError", msg |-> <<>>]

\* d[k] of a dict that has the key
Get(d, key) ==
    d.items[Min({j \in 1..Len(d.keys) : d.keys[j] = key})]

\* _ESCAPE_MAP[c] for a special character, c itself for any other
EscapeChar(c) ==
    CASE c = "\\" ->
             <<"\\", "t", "e", "x", "t", "b", "a", "c", "k", "s", "l", "a",
               "s", "h", "{", "}">>
      [] c = "~" ->
             <<"\\", "t", "e", "x", "t", "a", "s", "c", "i", "i", "t", "i",
               "l", "d", "e", "{", "}">>
      [] c = "^" ->
             <<"\\", "t", "e", "x", "t", "a", "s", "c", "i", "i", "c", "i",
               "r", "c", "u", "m", "{", "}">>
      [] c \in {"%", "$", "#", "_", "{", "}", "&"} -> <<"\\", c>>
      [] OTHER -> <<c>>

\* escape_latex(text)
escape_latex(text) == Concat([j \in 1..Len(text) |-> EscapeChar(text[j])])

\* escape_latex(d[key]): d must be subscriptable by a string and have the
\* key, and the value must be a string.
EscapedField(d, key) ==
    IF d.t # "dict" THEN Raises(TypeError)
    ELSE IF key \notin Range(d.keys) THEN Raises(KeyError(key))
    ELSE IF Get(d, key).t # "str" THEN Raises(TypeError)
    ELSE [ok |-> TRUE, val |-> escape_latex(Get(d, key).chars),
          err |-> NoError]

\* One turn of a for loop over the items: label, then text.
ItemLine(item) ==
    LET label == EscapedField(item, KeyLabel)
        text == EscapedField(item, KeyText)
    IN  IF ~label.ok THEN label
        ELSE IF ~text.ok THEN text
        ELSE [ok |-> TRUE, val |-> <<label.val, text.val>>, err |-> NoError]

\* What "for item in v" iterates over: the items of a list, the characters
\* of a string, the keys of a dict; a number is not iterable.
Iterated(v) ==
    CASE v.t = "list" -> [ok |-> TRUE, val |-> v.items, err |-> NoError]
      [] v.t = "str" ->
            [ok |-> TRUE,
             val |-> [j \in 1..Len(v.chars) |-> JStr(<<v.chars[j]>>)],
             err |-> NoError]
      [] v.t = "dict" ->
            [ok |-> TRUE, val |-> [j \in 1..Len(v.keys) |-> JStr(v.keys[j])],
             err |-> NoError]
      [] OTHER -> Raises(TypeError)

\* The lines of one itemize block: for item in data[key]: ...
ItemLines(d, key) ==
    IF key \notin Range(d.keys) THEN Raises(KeyError(key))
    ELSE LET over == Iterated(Get(d, key))
         IN  IF ~over.ok THEN over
             ELSE LET each == [j \in 1..Len(over.val) |->
                                  ItemLine(over.val[j])]
                      bad == {j \in 1..Len(each) : ~each[j].ok}
                  IN  IF bad # {} THEN each[Min(bad)]
                      ELSE [ok |-> TRUE,
                            val |-> [j \in 1..Len(each) |-> each[j].val],
                            err |-> NoError]

\* fill_template(data): the fields put into the template, or the exception
\* raised.  The fixed text of the template is left out.
fill_template(d) ==
    LET title == EscapedField(d, KeyTitle)
        summary == EscapedField(d, KeySummary)
        contributions == ItemLines(d, KeyContributions)
        limitations == ItemLines(d, KeyLimitations)
        question == EscapedField(d, KeyQuestion)
    IN  IF ~title.ok THEN title
        ELSE IF ~summary.ok THEN summary
        ELSE IF ~contributions.ok THEN contributions
        ELSE IF ~limitations.ok THEN limitations
        ELSE IF ~question.ok THEN question
        ELSE [ok |-> TRUE,
              val |-> [written |-> TRUE, title |-> title.val,
                       summary |-> summary.val,
                       contributions |-> contributions.val,
                       limitations |-> limitations.val,
                       question |-> question.val],
              err |-> NoError]

\* ------------------------------------------------------------------------
\* watcher.process_pdf
\* ------------------------------------------------------------------------
\* What extract_text may raise: both extractors failed.
ExtractErrors == {[type |-> "ValueError", msg |-> <<"e">>]}

\* What rewrite_text may return for a text: a rewritten text, or the text
\* it was given (its fallback when the model answers nothing).
Rewritten(original) == {JStr(<<"y", "_">>), original}

\* What rewrite_text may raise: the fallback's request failed.
RewriteErrors == {[type |-> "CLIConnectionError", msg |-> <<"x">>]}

\* What mkdir and write_text may raise.
WriteErrors == {[type |-> "OSError", msg |-> <<"w">>]}

\* The classes of the exceptions the stages raise; each is a subclass of
\* Exception.
ExceptionClasses ==
    {"ValueError", "KeyError", "TypeError", "AttributeError", "OSError",
     "MessageParseError", "ProcessError", "CLIConnectionError"}

\* A handler for ValueError alone.
Catches_ValueErrorOnly(e) == e.type = "ValueError"

\* except Exception as e
Catches(e) == e.type \in ExceptionClasses

LogLine(level, event, e) == [level |-> level, event |-> event, err |-> e]

\* A stage raised e: logging.error in the handler, and process_pdf returns;
\* an exception the handler does not catch leaves process_pdf.
PdfExcept(e) ==
    IF Catches(e)
    THEN /\ ppc' = "returned"
         /\ pdfLog' = Append(pdfLog, LogLine("error", "Failed to process", e))
         /\ pdfError' = NoError
    ELSE /\ ppc' = "raised"
         /\ pdfError' = e
         /\ UNCHANGED pdfLog

\* The top-level call is process_pdf(pdf_path): logging.info, and the try
\* block is entered.
CallProcessPdf ==
    /\ entry = "process_pdf"
    /\ ppc = "idle"
    /\ ppc' = "extract"
    /\ pdfLog' = Append(pdfLog, LogLine("info", "New PDF detected", NoError))
    /\ UNCHANGED <<pc, configVars, chunkVars, queryVars, runVars, logVars,
                   waitVars, stages, tex_content, texFile, pdfError>>

\* 1. text = extract_text(pdf_path), the words are counted and logged.
PdfExtract ==
    /\ ppc = "extract"
    /\ stages' = Append(stages, "extract_text")
    /\ \/ /\ ppc' = "pipeline"
          /\ pdfLog' =
                 Append(pdfLog, LogLine("info", "Text extracted", NoError))
          /\ UNCHANGED pdfError
       \/ \E e \in ExtractErrors : PdfExcept(e)
    /\ UNCHANGED <<pc, configVars, chunkVars, queryVars, runVars, logVars,
                   waitVars, tex_content, texFile>>

\* 2. data = await run_pipeline(text, pdf_path.stem): the call starts.
PdfRunPipeline ==
    /\ entry = "process_pdf"
    /\ ppc = "pipeline"
    /\ ppc' = "await_pipeline"
    /\ stages' = Append(stages, "run_pipeline")
    /\ RunEnter
    /\ UNCHANGED <<pdfLog, tex_content, texFile, pdfError>>

\* run_pipeline returned its data.
PdfPipelineReturned ==
    /\ ppc = "await_pipeline"
    /\ pc = "returned"
    /\ ppc' = "rewrite"
    /\ UNCHANGED <<pc, configVars, chunkVars, queryVars, runVars, logVars,
                   waitVars, stages, pdfLog, tex_content, texFile, pdfError>>

\* run_pipeline raised.
PdfPipelineRaised ==
    /\ ppc = "await_pipeline"
    /\ pc = "raised"
    /\ PdfExcept(error)
    /\ UNCHANGED <<pc, configVars, chunkVars, queryVars, runVars, logVars,
                   waitVars, stages, tex_content, texFile>>

\* 3. original_summary = data.get("summary", ""); rewritten_summary =
\* await rewrite_text(original_summary); data["summary"] = rewritten_summary
PdfRewrite ==
    /\ ppc = "rewrite"
    /\ stages' = Append(stages, "rewrite_text")
    /\ IF data.t # "dict"
       THEN /\ PdfExcept(AttributeError)
            /\ UNCHANGED data
       ELSE LET original_summary ==
                    IF KeySummary \in Range(data.keys)
                    THEN Get(data, KeySummary) ELSE JStr(<<>>)
            IN  \/ \E rewritten_summary \in Rewritten(original_summary) :
                      /\ data' = DictPut(data, KeySummary, rewritten_summary)
                      /\ ppc' = "fill"
                      /\ UNCHANGED <<pdfLog, pdfError>>
                \/ /\ \E e \in RewriteErrors : PdfExcept(e)
                   /\ UNCHANGED data
    /\ UNCHANGED <<pc, configVars, chunkVars, queryVars, logVars, waitVars, k,
                   chunk_summaries, response, error, tex_content, texFile>>

\* 4. tex_content = fill_template(data)
PdfFill ==
    /\ ppc = "fill"
    /\ stages' = Append(stages, "fill_template")
    /\ LET out == fill_template(data)
       IN  IF out.ok
           THEN /\ tex_content' = out.val
                /\ ppc' = "write"
                /\ UNCHANGED <<pdfLog, pdfError>>
           ELSE /\ PdfExcept(out.err)
                /\ UNCHANGED tex_content
    /\ UNCHANGED <<pc, configVars, chunkVars, queryVars, runVars, logVars,
                   waitVars, texFile>>

\* 5. PAPERS_OUTBOX.mkdir(...); tex_path.write_text(tex_content); and the
\* path is logged.
PdfWrite ==
    /\ ppc = "write"
    /\ stages' = Append(stages, "write_text")
    /\ \/ /\ texFile' = tex_content
          /\ ppc' = "compile"
          /\ pdfLog' =
                 Append(pdfLog, LogLine("info", "LaTeX written", NoError))
          /\ UNCHANGED pdfError
       \/ /\ \E e \in WriteErrors : PdfExcept(e)
          /\ UNCHANGED texFile
    /\ UNCHANGED <<pc, configVars, chunkVars, queryVars, runVars, logVars,
                   waitVars, tex_content>>

\* What compile_latex(tex_path) does: it returns True, or it logs why not
\* and returns False (latexmk is not installed; latexmk failed, timed out
\* or could not be run).  It raises nothing.
CompileOutcomes ==
    { [compiled |-> TRUE, logged |-> <<>>],
      [compiled |-> FALSE,
       logged |-> <<LogLine("info", "latexmk not installed", NoError)>>],
      [compiled |-> FALSE,
       logged |-> <<LogLine("error", "LaTeX compilation failed", NoError)>>] }

\* 6. if compile_latex(tex_path): logging.info(...)
PdfCompile ==
    /\ ppc = "compile"
    /\ stages' = Append(stages, "compile_latex")
    /\ ppc' = "returned"
    /\ \E out \in CompileOutcomes :
           pdfLog' = IF out.compiled
                     THEN Append(pdfLog \o out.logged,
                                 LogLine("info", "PDF compiled", NoError))
                     ELSE pdfLog \o out.logged
    /\ UNCHANGED <<pc, configVars, chunkVars, queryVars, runVars, logVars,
                   waitVars, tex_content, texFile, pdfError>>

\* ------------------------------------------------------------------------
\* The calls the model makes
\* ------------------------------------------------------------------------
\* Word counts and configurations: <<words, CHUNK_SIZE, CHUNK_OVERLAP>>.
\* The configurations of the grid include overlaps that are not below the
\* chunk size.
ChunkInputs ==
    {<<n, size, overlap>> : n \in 0..MaxWords, size \in 1..MaxChunkSize,
                            overlap \in 0..MaxChunkSize}
        \cup {<<500, DefaultChunkSize, DefaultChunkOverlap>>,
              <<7000, DefaultChunkSize, DefaultChunkOverlap>>}

Pieces ==
    { Fence, JsonTag, <<"{">>, <<"}">>, <<"\"">>, <<":">>, <<"1">>, <<" ">>,
      <<"\n">>, <<"x">> }

RECURSIVE PieceStrings(_)
\* Every text made of at most n pieces.
PieceStrings(n) ==
    IF n = 0 THEN {<<>>}
    ELSE LET shorter == PieceStrings(n - 1)
         IN  shorter \cup {piece \o t : piece \in Pieces, t \in shorter}

\* JSON texts, well formed and not, as a model writes them.
Bodies ==
    { <<"{", "\"", "x", "\"", ":", "1", "}">>,
      <<"{", "\"", "x", "\"", ":", " ", "\"">> \o Fence \o <<"x", "\"", "}">>,
      <<"{", "\"", "x", "\"", ":", "[", "1", ",", " ", "\"", "x", "\"", "]",
        ",", "\"", "j", "\"", ":", "{", "}", "}">>,
      <<"[", "1", "]">>,
      <<"{", "\"", "x", "\"", ":", "1">> }

Padding == [j \in 1..SnippetLen |-> "x"]

Prefixes ==
    { <<>>, Fence \o JsonTag \o <<"\n">>, Fence \o <<"\n">>, <<"x", "\n">> }

Suffixes ==
    { <<>>, <<"\n">> \o Fence, <<"\n", "x">>, <<"\n">> \o Padding }

\* The bodies that are JSON object texts.
ObjectTexts ==
    {b \in Bodies : JsonLoads(b).ok /\ JsonLoads(b).val.t = "dict"}

\* What a model puts around the JSON it answers with: whitespace, lines of
\* commentary without braces, and a markdown fence with or without the
\* language tag.
WrapLead == { <<>>, <<" ", "\n">> }
NotesBefore == { <<>>, <<"x", "\n">>, <<"[", "\n">> }
FenceOpens == { <<>>, Fence \o <<"\n">>, Fence \o JsonTag \o <<"\n">> }
FenceClose(open) == IF open = <<>> THEN <<>> ELSE <<"\n">> \o Fence
NotesAfter == { <<>>, <<"\n", "x">>, <<"\n", "]">> }
WrapTrail == { <<>>, <<"\n", " ">> }

Wrappings ==
    { [pre |-> lead \o note \o open,
       post |-> FenceClose(open) \o after \o trail] :
          lead \in WrapLead, note \in NotesBefore, open \in FenceOpens,
          after \in NotesAfter, trail \in WrapTrail }

Wrap(w, b) == w.pre \o b \o w.post

\* The raw responses _extract_json is called with.
RawTexts ==
    PieceStrings(MaxPieces)
        \cup {a \o b \o c : a \in Prefixes, b \in Bodies, c \in Suffixes}
        \cup {Wrap(w, b) : w \in Wrappings, b \in ObjectTexts}

InitIdle ==
    /\ pc = "call"
    /\ cpc = "idle"
    /\ i = 0
    /\ chunks = <<>>
    /\ qpc = "idle"
    /\ attempt = 0
    /\ qresult = <<>>
    /\ qerror = NoError
    /\ events = <<>>
    /\ k = 0
    /\ chunk_summaries = <<>>
    /\ data = NoData
    /\ error = NoError
    /\ queries = <<>>
    /\ replies = <<>>
    /\ nRequests = 0
    /\ wpc = "idle"
    /\ prev_size = -1
    /\ stable = 0
    /\ reads = 0
    /\ sizeLog = <<>>
    /\ statFailed = FALSE
    /\ wresult = "none"
    /\ ppc = "idle"
    /\ stages = <<>>
    /\ pdfLog = <<>>
    /\ tex_content = NoTex
    /\ texFile = NoTex
    /\ pdfError = NoError

InitChunkInput ==
    \E in \in ChunkInputs :
        /\ words = [j \in 1..in[1] |-> j]
        /\ CHUNK_SIZE = in[2]
        /\ CHUNK_OVERLAP = in[3]

InitDefaultConfig ==
    /\ words = <<>>
    /\ CHUNK_SIZE = DefaultChunkSize
    /\ CHUNK_OVERLAP = DefaultChunkOverlap

InitNoQuery ==
    /\ prompt = NoPrompt
    /\ model = ""
    /\ retries = 0

InitNoWait == checks = DefaultChecks

\* The checks arguments wait_for_complete is called with: the default, fewer,
\* and the values for which the loop runs once or not at all.
WaitChecks == (-2)..MaxChecks

\* The documents process_pdf is called on, with the configuration in force:
\* <<words, CHUNK_SIZE, CHUNK_OVERLAP>>.  The first is summarised in a single
\* pass, the second in two chunks.
PdfInputs == {<<2, 3, 1>>, <<4, 3, 1>>}

InitPdfInput ==
    \E in \in PdfInputs :
        /\ words = [j \in 1..in[1] |-> j]
        /\ CHUNK_SIZE = in[2]
        /\ CHUNK_OVERLAP = in[3]

Init ==
    /\ InitIdle
    /\ \/ /\ entry = "run_pipeline"
          /\ InitChunkInput
          /\ InitNoWait
          /\ InitNoQuery
          /\ filename = "paper1"
          /\ response = <<>>
       \/ /\ entry = "_chunk_text"
          /\ InitChunkInput
          /\ InitNoWait
          /\ InitNoQuery
          /\ filename = ""
          /\ response = <<>>
       \/ /\ entry = "_query_claude"
          /\ InitDefaultConfig
          /\ InitNoWait
          /\ prompt = SummaryPrompt(<<1, 2>>, "paper1")
          /\ model \in {MAIN_MODEL, CHUNK_MODEL}
          /\ retries \in (-1)..MaxRetries
          /\ filename = ""
          /\ response = <<>>
       \/ /\ entry = "_extract_json"
          /\ InitDefaultConfig
          /\ InitNoWait
          /\ InitNoQuery
          /\ filename = ""
          /\ response \in RawTexts
       \/ /\ entry = "wait_for_complete"
          /\ InitDefaultConfig
          /\ InitNoQuery
          /\ filename = ""
          /\ response = <<>>
          /\ checks \in WaitChecks
       \/ /\ entry = "process_pdf"
          /\ InitPdfInput
          /\ InitNoWait
          /\ InitNoQuery
          /\ filename = "paper1"
          /\ response = <<>>

Next ==
    \/ CallChunkText
    \/ ChunkStep
    \/ ChunkExit
    \/ ReturnChunkText
    \/ CallExtractJson
    \/ CallQuery
    \/ QueryRequest
    \/ QueryReply
    \/ QueryError
    \/ QueryWake
    \/ QueryFallThrough
    \/ ReturnQuery
    \/ RunStart
    \/ RunChunked
    \/ RunChunkQuery
    \/ RunChunkDone
    \/ RunConsolidate
    \/ RunQueryRaised
    \/ RunParse
    \/ CallWaitForComplete
    \/ WaitRead
    \/ WaitWake
    \/ WaitGiveUp
    \/ ReturnWaitForComplete
    \/ CallProcessPdf
    \/ PdfExtract
    \/ PdfRunPipeline
    \/ PdfPipelineReturned
    \/ PdfPipelineRaised
    \/ PdfRewrite
    \/ PdfFill
    \/ PdfWrite
    \/ PdfCompile

Spec == Init /\ [][Next]_vars

\* _chunk_text called on its own.  The function is straight-line code in a
\* loop that nothing suspends: a step that can be taken is taken.
InitChunker == Init /\ entry = "_chunk_text"

NextChunker ==
    \/ CallChunkText
    \/ ChunkStep
    \/ ChunkExit
    \/ ReturnChunkText

ChunkerSpec == InitChunker /\ [][NextChunker]_vars /\ WF_vars(NextChunker)

\* run_pipeline called on a document.  Every step that can be taken is
\* taken in the end: the code runs on, a sleep is over after its time, and
\* every backend request answers or fails.  A run chunks only a text of
\* more than CHUNK_SIZE words, for which the while condition of the chunk
\* loop is never false (the loop ends at its break), so ChunkExit is no
\* step of a run.
InitRun == Init /\ entry = "run_pipeline"

NextRun ==
    \/ RunStart
    \/ ChunkStep
    \/ RunChunked
    \/ RunChunkQuery
    \/ QueryRequest
    \/ QueryReply
    \/ QueryError
    \/ QueryWake
    \/ RunChunkDone
    \/ RunConsolidate
    \/ RunQueryRaised
    \/ RunParse

RunSpec == InitRun /\ [][NextRun]_vars /\ WF_vars(NextRun)

\* wait_for_complete called on its own.  The loop runs on, every read of
\* the size answers or raises, and time.sleep returns after its interval.
InitWait == Init /\ entry = "wait_for_complete"

NextWait ==
    \/ CallWaitForComplete
    \/ WaitRead
    \/ WaitWake
    \/ WaitGiveUp
    \/ ReturnWaitForComplete

WaitSpec == InitWait /\ [][NextWait]_vars /\ WF_vars(NextWait)

\* process_pdf called on a document: its own steps and those of the
\* run_pipeline call it makes.
InitPdf == Init /\ entry = "process_pdf"

NextPdf ==
    \/ CallProcessPdf
    \/ PdfExtract
    \/ PdfRunPipeline
    \/ ChunkStep
    \/ RunChunked
    \/ RunChunkQuery
    \/ QueryRequest
    \/ QueryReply
    \/ QueryError
    \/ QueryWake
    \/ RunChunkDone
    \/ RunConsolidate
    \/ RunQueryRaised
    \/ RunParse
    \/ PdfPipelineReturned
    \/ PdfPipelineRaised
    \/ PdfRewrite
    \/ PdfFill
    \/ PdfWrite
    \/ PdfCompile

PdfSpec == InitPdf /\ [][NextPdf]_vars

\* ------------------------------------------------------------------------
\* Properties
\* ------------------------------------------------------------------------
IsRun == entry = "run_pipeline"

\* The text has more words than one call's budget.
OverBudget == Len(words) > CHUNK_SIZE

\* 0 <= overlap < max_size
ValidConfig == 0 <= CHUNK_OVERLAP /\ CHUNK_OVERLAP < CHUNK_SIZE

RunEnded == pc \in {"returned", "raised"}

\* The run is over and none of its queries raised.
RunEndedAfterAllQueries ==
    pc = "returned" \/ (pc = "raised" /\ error.type = "ValueError")

QueriesTo(m) == {j \in 1..Len(queries) : queries[j].model = m}

CeilDiv(a, b) == (a + b - 1) \div b

(***************************************************************************)
(* C1.  A run over a text within the budget makes one query, to the main   *)
(* model, and none to the chunk model.  A run over a longer text that      *)
(* splits into n chunks queries the chunk model about chunk 1, ..., chunk  *)
(* n in this order, and only then the main model; it makes no query        *)
(* before the chunks exist and never more than n + 1.  A run none of       *)
(* whose queries raised has made all n + 1 of them, and a run that         *)
(* returned has queried the main model exactly once.                       *)
(***************************************************************************)
C1_QueryPlan ==
    IsRun =>
        /\ ~OverBudget =>
               /\ Len(queries) = (IF pc = "call" THEN 0 ELSE 1)
               /\ QueriesTo(CHUNK_MODEL) = {}
               /\ \A j \in 1..Len(queries) :
                      /\ queries[j].model = MAIN_MODEL
                      /\ queries[j].prompt.kind = "summary"
        /\ (OverBudget /\ cpc # "returned") => queries = <<>>
        /\ (OverBudget /\ cpc = "returned") =>
               /\ Len(queries) <= Len(chunks) + 1
               /\ \A j \in 1..Len(queries) :
                      IF j <= Len(chunks)
                      THEN /\ queries[j].model = CHUNK_MODEL
                           /\ queries[j].prompt.kind = "chunk"
                           /\ queries[j].prompt.chunk_num = j
                           /\ queries[j].prompt.total = Len(chunks)
                           /\ queries[j].prompt.text = chunks[j]
                      ELSE /\ queries[j].model = MAIN_MODEL
                           /\ queries[j].prompt.kind = "consolidation"
               /\ RunEndedAfterAllQueries => Len(queries) = Len(chunks) + 1
        /\ pc = "returned" => Cardinality(QueriesTo(MAIN_MODEL)) = 1

\* The 7000-word text, run to the end: three chunk queries, one main query.
C1_Witness ==
    /\ IsRun
    /\ pc = "returned"
    /\ Len(words) = 7000
    /\ Cardinality(QueriesTo(CHUNK_MODEL)) = 3
    /\ Cardinality(QueriesTo(MAIN_MODEL)) = 1

(***************************************************************************)
(* C2.  With 0 <= overlap < max_size, the chunker returns                  *)
(* ceil((L - overlap) / (max_size - overlap)) chunks for a text of         *)
(* L > max_size words; and a run over a text of L <= max_size words makes  *)
(* exactly one query and never enters the chunker.                         *)
(***************************************************************************)
C2_ChunkCount ==
    /\ (cpc = "returned" /\ ValidConfig /\ OverBudget) =>
           Len(chunks) = CeilDiv(Len(words) - CHUNK_OVERLAP,
                                 CHUNK_SIZE - CHUNK_OVERLAP)
    /\ (IsRun /\ ~OverBudget /\ RunEnded) =>
           /\ Len(queries) = 1
           /\ cpc = "idle"
           /\ chunks = <<>>

\* The chunker has returned three chunks for 7000 words, 3000 and 200.
C2_Witness ==
    /\ entry = "_chunk_text"
    /\ cpc = "returned"
    /\ Len(words) = 7000
    /\ CHUNK_SIZE = 3000
    /\ CHUNK_OVERLAP = 200
    /\ Len(chunks) = 3

\* The words two consecutive chunks share.
OverlapRegions ==
    UNION {Range(chunks[j]) \cap Range(chunks[j + 1]) : j \in 1..(Len(chunks) - 1)}

(***************************************************************************)
(* C3.  With overlap < max_size, the chunks the chunker returns cover the  *)
(* text: when the chunker hands them to its caller, every word is in at    *)
(* least one chunk, and every word outside the overlap of two consecutive  *)
(* chunks is in exactly one.                                               *)
(***************************************************************************)
C3_Coverage ==
    (cpc = "returned" /\ pc \in {"waiting", "chunking"} /\ ValidConfig) =>
        LET covered == [j \in 1..Len(chunks) |-> Range(chunks[j])]
            shared == OverlapRegions
        IN  \A w \in 1..Len(words) :
                LET holders == {j \in 1..Len(chunks) : words[w] \in covered[j]}
                IN  /\ holders # {}
                    /\ words[w] \notin shared => Cardinality(holders) = 1

\* Three chunks or more with an overlap, the last one shorter than the rest.
C3_Witness ==
    /\ cpc = "returned"
    /\ pc \in {"waiting", "chunking"}
    /\ ValidConfig
    /\ CHUNK_OVERLAP > 0
    /\ Len(chunks) >= 3
    /\ Len(chunks[Len(chunks)]) < CHUNK_SIZE
    /\ OverlapRegions # {}

(***************************************************************************)
(* C4.  Under a configuration with overlap >= max_size the chunker emits   *)
(* no chunk: the configuration is rejected before the loop runs.           *)
(***************************************************************************)
C4_InvalidConfigRejected ==
    CHUNK_OVERLAP >= CHUNK_SIZE => (chunks = <<>> /\ cpc # "returned")

IsRequest(e) == e.ev = "request"
IsSleep(e) == e.ev = "sleep"
IsWarning(e) == e.ev = "warning"

\* The durations of the current query's sleeps, in order.
SleepSecs == [j \in 1..Len(SelectSeq(events, IsSleep)) |->
                 SelectSeq(events, IsSleep)[j].secs]

NumRequests == Len(SelectSeq(events, IsRequest))
NumSleeps == Len(SelectSeq(events, IsSleep))

(***************************************************************************)
(* C5.  What a query does is a chain of attempts: request 0, and after a   *)
(* request of attempt a that failed with a rate-limit error while          *)
(* a < retries - 1, exactly one warning, then a sleep of 60 * (a + 1)      *)
(* seconds, then the request of attempt a + 1 with the same prompt and     *)
(* model.  Such a failure always leads to the sleep.  A query that         *)
(* returns from its third attempt has slept 60 s and then 120 s, each      *)
(* sleep between two requests, and returns what the third request          *)
(* answered.                                                               *)
(***************************************************************************)
C5_Backoff ==
    /\ \A j \in 1..Len(events) :
           LET e == events[j]
           IN  /\ e.prompt = prompt /\ e.model = model
               /\ IsRequest(e) =>
                      \/ j = 1 /\ e.attempt = 0
                      \/ /\ j > 3
                         /\ IsSleep(events[j - 1])
                         /\ IsRequest(events[j - 3])
                         /\ e.attempt = events[j - 3].attempt + 1
               /\ IsWarning(e) =>
                      /\ j > 1 /\ j < Len(events)
                      /\ IsRequest(events[j - 1])
                      /\ IsSleep(events[j + 1])
                      /\ e.attempt = events[j - 1].attempt
                      /\ e.secs = 60 * (e.attempt + 1)
               /\ IsSleep(e) =>
                      /\ j > 1
                      /\ IsWarning(events[j - 1])
                      /\ e.attempt = events[j - 1].attempt
                      /\ e.secs = 60 * (e.attempt + 1)
    /\ qpc = "sleeping" =>
           /\ events # <<>>
           /\ IsSleep(events[Len(events)])
           /\ events[Len(events)].attempt = attempt
    /\ (qpc \in {"sleeping", "raised"} /\ IsRateLimit(qerror)
            /\ attempt < retries - 1) => qpc = "sleeping"
    /\ (qpc = "returned" /\ attempt = 2) =>
           /\ SleepSecs = <<60, 120>>
           /\ Len(events) = 7
           /\ IsRequest(events[7])
           /\ replies # <<>>
           /\ qresult = replies[Len(replies)]
           /\ qresult \in {ResponseText(m) : m \in BackendReplies(model)}

\* Rate limited twice, answered at the third attempt.
C5_Witness ==
    /\ entry = "_query_claude"
    /\ qpc = "returned"
    /\ attempt = 2
    /\ SleepSecs = <<60, 120>>
    /\ qresult # <<>>

(***************************************************************************)
(* C6.  A request that fails with an error that is no rate-limit error     *)
(* makes the query raise at once, on any attempt: the query never sleeps   *)
(* on such an error, the step that catches it adds no sleep and no         *)
(* request, and a query that raised does nothing more.                     *)
(***************************************************************************)
C6_NoRetryOnOtherErrors ==
    /\ [](qpc = "sleeping" => IsRateLimit(qerror))
    /\ [][(qpc = "awaiting" /\ qerror' # NoError /\ ~IsRateLimit(qerror')) =>
              (/\ qpc' = "raised"
               /\ events' = events
               /\ nRequests' = nRequests)]_vars
    /\ [][qpc = "raised" =>
              (/\ qpc' = "raised"
               /\ qerror' = qerror
               /\ events' = events
               /\ nRequests' = nRequests)]_vars

\* The first request failed with another error: raised after one request.
C6_Witness ==
    /\ qpc = "raised"
    /\ attempt = 0
    /\ ~IsRateLimit(qerror)
    /\ Len(events) = 1
    /\ nRequests = 1

(***************************************************************************)
(* C7.  A query with retries >= 1 issues at most retries requests and      *)
(* sleeps at most retries - 1 times; when it raises a rate-limit error it  *)
(* is on its last attempt, after exactly retries requests and              *)
(* retries - 1 sleeps, the failed request being the last thing it did.     *)
(***************************************************************************)
C7_RetryLimit ==
    (retries >= 1 /\ qpc # "idle") =>
        /\ NumRequests <= retries
        /\ NumSleeps <= retries - 1
        /\ (qpc = "raised" /\ IsRateLimit(qerror)) =>
               /\ attempt = retries - 1
               /\ NumRequests = retries
               /\ NumSleeps = retries - 1
               /\ IsRequest(events[Len(events)])

\* Three rate-limit failures in a row with retries = 3.
C7_Witness ==
    /\ qpc = "raised"
    /\ IsRateLimit(qerror)
    /\ retries = 3
    /\ NumRequests = 3
    /\ NumSleeps = 2

RECURSIVE BlankLineJoined(_)
\* The texts of ss in order, a blank line between each two.
BlankLineJoined(ss) ==
    IF Len(ss) = 0 THEN <<>>
    ELSE IF Len(ss) = 1 THEN ss[1]
    ELSE BlankLineJoined(SubSeq(ss, 1, Len(ss) - 1)) \o <<"\n", "\n">>
             \o ss[Len(ss)]

(***************************************************************************)
(* C8.  In the chunked path the summaries collected so far are what the    *)
(* chunk queries returned, in the order of the chunks; and the             *)
(* consolidation prompt holds the summaries of chunks 1..n in this order,  *)
(* each once, a blank line between each two.                               *)
(***************************************************************************)
C8_SummaryOrder ==
    (IsRun /\ OverBudget /\ cpc = "returned") =>
        /\ pc = "chunk_loop" =>
               /\ Len(replies) = k
               /\ chunk_summaries = replies
        /\ Len(queries) = Len(chunks) + 1 =>
               LET n == Len(chunks)
                   last == queries[n + 1].prompt
               IN  /\ last.kind = "consolidation"
                   /\ Len(replies) >= n
                   /\ \A j \in 1..n : queries[j].prompt.chunk_num = j
                   /\ last.summaries = BlankLineJoined(SubSeq(replies, 1, n))

\* A consolidated run of three chunks whose first two summaries differ.
C8_Witness ==
    /\ IsRun
    /\ pc = "returned"
    /\ Len(chunks) = 3
    /\ Len(queries) = 4
    /\ replies[1] # replies[2]

(***************************************************************************)
(* C9.  A run ends with an error and without a result as soon as one of    *)
(* its queries raises or the final response does not parse: after a        *)
(* query raised, no query and no request is issued, the run ends with      *)
(* that query's error, and an ended run does nothing more.  A result is    *)
(* there only when the run returned, and then it is the parse of the       *)
(* main model's response, every query having returned.                     *)
(***************************************************************************)
C9_AllOrNothing ==
    /\ [](IsRun =>
            /\ pc = "raised" => (data = NoData /\ error # NoError)
            /\ data # NoData => pc = "returned"
            /\ pc = "returned" =>
                   /\ error = NoError
                   /\ qpc = "returned"
                   /\ response = qresult
                   /\ Len(replies) = Len(queries)
                   /\ ExtractJson(response).ok
                   /\ data = ExtractJson(response).val
            /\ Len(queries) <= Len(replies) + 1
            /\ qpc = "raised" => Len(queries) = Len(replies) + 1
            /\ pc = "raised" =>
                   \/ qpc = "raised" /\ error = qerror
                   \/ /\ qpc = "returned"
                      /\ error.type = "ValueError"
                      /\ ~ExtractJson(qresult).ok)
    /\ [][(IsRun /\ qpc = "raised") =>
              (/\ queries' = queries
               /\ nRequests' = nRequests
               /\ data' = NoData
               /\ pc' = "raised"
               /\ error' = qerror)]_vars
    /\ [][(IsRun /\ RunEnded) => UNCHANGED vars]_vars

\* The query about chunk 2 of 3 raised: the run ended after two queries.
C9_Witness ==
    /\ IsRun
    /\ pc = "raised"
    /\ error.type # "ValueError"
    /\ Len(chunks) = 3
    /\ Len(queries) = 2
    /\ Len(replies) = 1

(***************************************************************************)
(* C10.  _extract_json either returns a JSON object, or raises the parse   *)
(* error that carries the first 400 characters of the raw response; and a  *)
(* raw response without any brace makes it raise.                          *)
(***************************************************************************)
C10_ParserContract ==
    (entry = "_extract_json" /\ pc # "call") =>
        /\ \/ pc = "returned" /\ data.t = "dict"
           \/ /\ pc = "raised"
              /\ error.type = "ValueError"
              /\ error.msg = SubSeq(response, 1, Min({400, Len(response)}))
        /\ Range(response) \cap {"{", "}"} = {} => pc = "raised"


(***************************************************************************)
(* C11.  A JSON object text parses to the same value bare and wrapped:     *)
(* whatever whitespace, commentary lines without braces and markdown       *)
(* fence (with or without the language tag) surround the text, the parser  *)
(* returns what it returns for the text alone.                             *)
(***************************************************************************)
C11_WrappingIgnored ==
    (entry = "_extract_json" /\ pc # "call") =>
        \A b \in ObjectTexts : \A w \in Wrappings :
            response = Wrap(w, b) =>
                /\ pc = "returned"
                /\ ExtractJson(b).ok
                /\ data = ExtractJson(b).val

(***************************************************************************)
(* C12.  For a text of at most CHUNK_SIZE words _chunk_text returns        *)
(* exactly one chunk, the whole word sequence, for every word count from   *)
(* 0 up to CHUNK_SIZE.                                                     *)
(***************************************************************************)
C12_SingleChunk_Original ==
    (cpc = "returned" /\ Len(words) <= CHUNK_SIZE) => chunks = <<words>>

(***************************************************************************)
(* C12, amended.  For a text of 1 up to CHUNK_SIZE words _chunk_text       *)
(* returns exactly one chunk, the whole word sequence; for a text of no    *)
(* words it returns no chunk at all.                                       *)
(***************************************************************************)
C12_SingleChunk ==
    (cpc = "returned" /\ Len(words) <= CHUNK_SIZE) =>
        chunks = IF words = <<>> THEN <<>> ELSE <<words>>

\* A text of exactly CHUNK_SIZE words came back as one chunk.
C12_Witness ==
    /\ entry = "_chunk_text"
    /\ pc = "returned"
    /\ Len(words) = CHUNK_SIZE
    /\ Len(words) >= 2
    /\ chunks = <<words>>

\* The last chunk emitted ends at the last word of the text.
ReachedEnd ==
    /\ chunks # <<>>
    /\ chunks[Len(chunks)] # <<>>
    /\ chunks[Len(chunks)][Len(chunks[Len(chunks)])] = Len(words)

(***************************************************************************)
(* C13.  With 0 <= CHUNK_OVERLAP < CHUNK_SIZE the chunk loop terminates    *)
(* for every text, and it ends with the first chunk that reaches the end   *)
(* of the word sequence: the step that emits a chunk ending at the last    *)
(* word returns, and no chunk is emitted after such a chunk.               *)
(***************************************************************************)
C13_ChunkLoopEnds ==
    /\ ValidConfig ~> (cpc = "returned" /\ pc = "returned")
    /\ [][(ValidConfig /\ chunks' # chunks /\ ReachedEnd') =>
              cpc' = "returned"]_vars
    /\ [][(ValidConfig /\ ReachedEnd) => chunks' = chunks]_vars
    /\ [](ValidConfig /\ cpc = "returned" /\ words # <<>> => ReachedEnd)

\* A text that took three chunks, the last one ending exactly where the
\* text ends.
C13_Witness ==
    /\ ValidConfig
    /\ pc = "returned"
    /\ cpc = "returned"
    /\ Len(chunks) = 3
    /\ CHUNK_OVERLAP > 0
    /\ i + CHUNK_SIZE = Len(words)
    /\ ReachedEnd

\* The chunker has returned to its caller, which has not yet gone on.
ChunkerReturned == cpc = "returned" /\ pc \in {"waiting", "chunking"}

\* The words at the 0-based indices [from, to) of the text.
WordsAt(from, to) == [j \in 1..(to - from) |-> words[from + j]]

(***************************************************************************)
(* C14.  With CHUNK_OVERLAP < CHUNK_SIZE the chunk number n (n = 0, 1,     *)
(* ...) that _chunk_text returns is the words at the indices               *)
(* [n * step, min(n * step + CHUNK_SIZE, L)) with step = CHUNK_SIZE -      *)
(* CHUNK_OVERLAP, in document order; every chunk but the last has          *)
(* CHUNK_SIZE words, and two consecutive chunks have exactly               *)
(* CHUNK_OVERLAP words in common.                                          *)
(***************************************************************************)
C14_ChunkRanges ==
    (ValidConfig /\ ChunkerReturned) =>
        LET step == CHUNK_SIZE - CHUNK_OVERLAP
            L == Len(words)
        IN  /\ \A n \in 0..(Len(chunks) - 1) :
                   chunks[n + 1] =
                       WordsAt(n * step,
                               Min({n * step + CHUNK_SIZE, L}))
            /\ \A n \in 1..(Len(chunks) - 1) :
                   /\ Len(chunks[n]) = CHUNK_SIZE
                   /\ Cardinality(Range(chunks[n]) \cap Range(chunks[n + 1]))
                          = CHUNK_OVERLAP

\* 7000 words at the default configuration: [0,3000), [2800,5800),
\* [5600,7000).
C14_Witness ==
    /\ ChunkerReturned
    /\ Len(words) = 7000
    /\ CHUNK_SIZE = DefaultChunkSize
    /\ CHUNK_OVERLAP = DefaultChunkOverlap
    /\ Len(chunks) = 3
    /\ chunks[1][1] = 1 /\ Len(chunks[1]) = 3000
    /\ chunks[2][1] = 2801 /\ Len(chunks[2]) = 3000
    /\ chunks[3][1] = 5601 /\ Len(chunks[3]) = 1400

\* A query has been started and has neither returned nor raised yet: it is
\* about to issue a request, waits for the backend, or sleeps.
QueryInProgress == qpc \in {"loop", "awaiting", "sleeping"}

(***************************************************************************)
(* C15.  Within one run at most one query is in progress at any time: the  *)
(* queries started are the queries that returned plus at most the one in   *)
(* progress (or the one that raised), and a query starts only when every   *)
(* query started before it has returned, its retries and sleeps over.      *)
(* The query of chunk number n starts when exactly the n - 1 chunks before *)
(* it have been answered, and the consolidation query starts when every    *)
(* chunk has been answered.                                                *)
(***************************************************************************)
C15_OneQueryAtATime ==
    /\ [](IsRun =>
             Len(queries) = Len(replies)
                 + (IF QueryInProgress \/ qpc = "raised" THEN 1 ELSE 0))
    /\ [][(IsRun /\ queries' # queries) =>
              (/\ ~QueryInProgress
               /\ qpc # "raised"
               /\ Len(replies) = Len(queries)
               /\ queries' =
                      Append(queries, [model |-> model', prompt |-> prompt'])
               /\ model' = CHUNK_MODEL =>
                      /\ prompt'.kind = "chunk"
                      /\ prompt'.chunk_num = Len(replies) + 1
                      /\ prompt'.chunk_num = k + 1
               /\ (model' = MAIN_MODEL /\ OverBudget) =>
                      /\ prompt'.kind = "consolidation"
                      /\ Len(replies) = Len(chunks)
                      /\ k = Len(chunks))]_vars

\* The third chunk's query sleeps after a rate-limit error while the first
\* two chunks have been answered.
C15_Witness ==
    /\ IsRun
    /\ pc = "await_chunk"
    /\ qpc = "sleeping"
    /\ prompt.chunk_num = 3
    /\ Len(replies) = 2
    /\ Len(queries) = 3

(***************************************************************************)
(* C16.  A fence marker that is not at the start or the end of the         *)
(* response is left in place: for every response that is a valid JSON      *)
(* object text, one whose string values contain a fence marker included,   *)
(* _extract_json returns exactly the value json.loads decodes from that    *)
(* text.                                                                   *)
(***************************************************************************)
C16_InnerFencesKept ==
    (/\ entry = "_extract_json"
     /\ pc # "call"
     /\ JsonLoads(response).ok
     /\ JsonLoads(response).val.t = "dict") =>
        /\ pc = "returned"
        /\ data = JsonLoads(response).val

(***************************************************************************)
(* C17.  _query_claude returns the fall-through empty string only when the *)
(* loop runs out without any attempt: the step that leaves the loop for    *)
(* the return is taken only with retries <= 0, before any request.  A      *)
(* query with retries <= 0 issues no request and does not raise; a query   *)
(* with retries >= 1 ends only by returning the trimmed text its last      *)
(* request answered, or by raising the error its last request failed with. *)
(***************************************************************************)
C17_FallThrough ==
    /\ [][(qpc = "loop" /\ qpc' = "returned") =>
              (/\ retries <= 0
               /\ attempt = 0
               /\ events = <<>>
               /\ qresult' = <<>>
               /\ nRequests' = nRequests)]_vars
    /\ []((retries <= 0 /\ qpc # "idle") =>
              (/\ qpc \in {"loop", "returned"}
               /\ events = <<>>
               /\ qpc = "returned" => qresult = <<>>))
    /\ []((retries >= 1 /\ qpc = "returned") =>
              (/\ events # <<>>
               /\ IsRequest(events[Len(events)])
               /\ events[Len(events)].attempt = attempt
               /\ attempt < retries
               /\ qresult \in
                      {ResponseText(m) : m \in BackendReplies(model)}))
    /\ [](qpc = "raised" =>
              (/\ retries >= 1
               /\ events # <<>>
               /\ IsRequest(events[Len(events)])
               /\ qerror \in BackendErrors))

\* A call with retries = 0 returned the empty string without a request.
C17_Witness ==
    /\ entry = "_query_claude"
    /\ pc = "returned"
    /\ retries = 0
    /\ qresult = <<>>
    /\ events = <<>>
    /\ nRequests = 0

\* The stages of a run, in the order of the code.
Stage ==
    CASE pc = "call" -> 0
      [] pc = "chunking" -> 1
      [] pc \in {"chunk_loop", "await_chunk"} -> 2
      [] pc = "await_main" -> 3
      [] pc \in {"returned", "raised"} -> 4
      [] OTHER -> 5

(***************************************************************************)
(* C18.  A run goes through its stages in one direction: start, chunking,  *)
(* the chunk loop (whose chunk counter only grows), the main query, the    *)
(* end; and it never leaves the end.  A run whose text splits into n       *)
(* chunks (n = 0 for a single pass) issues at most (n + 1) * 3 backend     *)
(* requests.  With 0 <= CHUNK_OVERLAP < CHUNK_SIZE, if every backend       *)
(* request answers or fails, the run ends, with a result or an error.      *)
(***************************************************************************)
C18_LinearAndBounded ==
    /\ [][Stage' >= Stage /\ k' >= k]_vars
    /\ [][RunEnded => (RunEnded' /\ nRequests' = nRequests)]_vars
    /\ [](nRequests <= (Len(chunks) + 1) * DefaultRetries)
    /\ [](Len(queries) <= Len(chunks) + 1)
    /\ ValidConfig ~> RunEnded

\* A run over three chunks that ended with a result after the most
\* requests a run of three chunks can issue: 4 * 3.
C18_Witness ==
    /\ IsRun
    /\ ValidConfig
    /\ pc = "returned"
    /\ Len(chunks) = 3
    /\ nRequests = 12

\* The comparison the n-th read of the size made: a size above zero, equal
\* to the one read before it.  The first read has nothing before it.
ComparisonHeld(n) ==
    /\ n >= 2
    /\ sizeLog[n] > 0
    /\ sizeLog[n] = sizeLog[n - 1]

\* How many comparisons in a row held, up to the last read.
StableRun ==
    LET held == {m \in 0..Len(sizeLog) :
                    \A n \in (Len(sizeLog) - m + 1)..Len(sizeLog) :
                        ComparisonHeld(n)}
    IN  Max(held)

StageOrder ==
    <<"extract_text", "run_pipeline", "rewrite_text", "fill_template",
      "write_text", "compile_latex">>

\* The lines process_pdf's exception handler logged.
ErrorLines ==
    SelectSeq(pdfLog, LAMBDA line : line.event = "Failed to process")

(***************************************************************************)
(* C21.  process_pdf starts its stages in the order extract text,          *)
(* run_pipeline, rewrite summary, fill template, write .tex, compile, each *)
(* at most once.  It never ends with an exception: a stage that raises     *)
(* makes it log one error line, with the exception, and return, and no     *)
(* stage starts after that; a call that returned without such a line went  *)
(* through all six stages, the last of which logged how the compilation    *)
(* went, a failure included.  The .tex file is written only in the         *)
(* write stage, after extraction, run_pipeline, rewriting and template     *)
(* filling succeeded, and it holds what fill_template made of the data     *)
(* run_pipeline returned with the summary rewritten.                       *)
(***************************************************************************)
C21_ProcessPdf ==
    /\ [](stages = SubSeq(StageOrder, 1, Len(stages)))
    /\ [](ppc # "raised" /\ pdfError = NoError)
    /\ [](Len(ErrorLines) <= 1)
    /\ [](ErrorLines # <<>> =>
             (/\ ppc = "returned"
              /\ pdfLog[Len(pdfLog)] = ErrorLines[1]
              /\ ErrorLines[1].err # NoError
              /\ Len(stages) < Len(StageOrder)
              /\ ~texFile.written))
    /\ []((ppc = "returned" /\ ErrorLines = <<>>) =>
             (/\ stages = StageOrder
              /\ texFile.written
              /\ pdfLog[Len(pdfLog)].event \in
                     {"PDF compiled", "latexmk not installed",
                      "LaTeX compilation failed"}))
    /\ []((entry = "process_pdf" /\ pc = "raised") =>
             (/\ ppc \in {"await_pipeline", "returned"}
              /\ stages = SubSeq(StageOrder, 1, 2)
              /\ ppc = "returned" =>
                     (ErrorLines # <<>> /\ ErrorLines[1].err = error)))
    /\ [][ppc = "returned" => UNCHANGED <<ppc, stages, pdfLog, texFile>>]_vars
    /\ [][texFile' # texFile =>
              (ppc = "write" /\ stages' = SubSeq(StageOrder, 1, 5))]_vars
    /\ [](texFile.written =>
             LET returned == ParseResponse(response).val
                 original == IF KeySummary \in Range(returned.keys)
                             THEN Get(returned, KeySummary) ELSE JStr(<<>>)
             IN  /\ Len(stages) >= 5
                 /\ pc = "returned"
                 /\ ParseResponse(response).ok
                 /\ returned.t = "dict"
                 /\ \E rewritten \in Rewritten(original) :
                        data = DictPut(returned, KeySummary, rewritten)
                 /\ fill_template(data).ok
                 /\ texFile = fill_template(data).val
                 /\ texFile = tex_content)

\* The write stage of a document summarised in two chunks failed: the
\* four stages before it succeeded, the error is logged, nothing is
\* written, and the compile stage did not start.
C21_Witness ==
    /\ entry = "process_pdf"
    /\ ppc = "returned"
    /\ Len(chunks) = 2
    /\ stages = SubSeq(StageOrder, 1, 5)
    /\ tex_content.written
    /\ tex_content.summary = <<"y", "\\", "_">>
    /\ ~texFile.written
    /\ ErrorLines # <<>>
    /\ ErrorLines[1].err.type = "OSError"

=============================================================================
